---- MODULE Spec2Model ----
(***************************************************************************)
(* Model of current_code/solver-multichunk.py: the full-polarisation,      *)
(* phase-only GN/LM solver (compute_jhr, compute_jhjinv, compute_update,   *)
(* compute_residual, full_pol_phase_only) and apply_gains.                 *)
(*                                                                         *)
(* Numbers.  The code computes in binary floating point.  The model        *)
(* computes in binary fixed point: a real x is the integer nearest to      *)
(* x * Scale, every product and quotient is rounded to nearest (ties away  *)
(* from zero, symmetric in sign as IEEE rounding is), and exp(-1j*phase)   *)
(* is evaluated by its power series after reduction modulo 2*pi.  A        *)
(* complex number is a record [re, im].                                    *)
(*                                                                         *)
(* Arrays.  One time/frequency cell is modelled, so model_arr and          *)
(* obser_arr are [antenna][antenna][2][2], gains is [antenna][2][2] and    *)
(* phases is [antenna][2] (the trailing axis of length 1 is dropped).      *)
(***************************************************************************)
EXTENDS Integers, Sequences, FiniteSets, TLC

\* ------------------------------------------------------------------ bounds
NAnt == 2
MaxMaxiter == 3
MaxChiInterval == 2

Ant == 0 .. (NAnt - 1)
Pol == 0 .. 1

\* ------------------------------------------------------- fixed-point reals
Scale == 2 ^ 10
TwoPi == (Scale * 710) \div 113
\* np.inf; finite values of chi are norms, hence >= 0
Inf == 0 - 1

Abs(a) == IF a < 0 THEN 0 - a ELSE a

\* a / b rounded to nearest, b > 0
RDiv(a, b) == IF a >= 0 THEN (a + b \div 2) \div b ELSE 0 - ((b \div 2 - a) \div b)

Mul(a, b) == RDiv(a * b, Scale)

RECURSIVE SqrtSearch(_, _, _)
SqrtSearch(n, lo, hi) ==
    IF lo >= hi THEN lo
    ELSE LET mid == (lo + hi + 1) \div 2
         IN  IF mid * mid <= n THEN SqrtSearch(n, mid, hi)
                               ELSE SqrtSearch(n, lo, mid - 1)

\* floor of the square root of n, 0 <= n < 2^31
ISqrt(n) == SqrtSearch(n, 0, 46340)

C(re, im) == [re |-> re, im |-> im]
CZero == C(0, 0)
COne == C(Scale, 0)
CAdd(x, y) == C(x.re + y.re, x.im + y.im)
CSub(x, y) == C(x.re - y.re, x.im - y.im)
CNeg(x) == C(0 - x.re, 0 - x.im)
CConj(x) == C(x.re, 0 - x.im)
CMul(x, y) == C(RDiv(x.re * y.re - x.im * y.im, Scale),
                RDiv(x.re * y.im + x.im * y.re, Scale))
\* x times the integer n
CTimes(n, x) == C(n * x.re, n * x.im)
\* |x|^2 in units of 1/Scale^2
CSq(x) == x.re * x.re + x.im * x.im
\* abs(x)
CAbs(x) == ISqrt(CSq(x))
\* 1./x for a complex x # 0: conj(x) / |x|^2
CRecip(x) == LET n == RDiv(CSq(x), Scale)
             IN  C(RDiv(x.re * Scale, n), RDiv((0 - x.im) * Scale, n))

RECURSIVE SumTo(_, _)
\* f[0] + ... + f[n-1] of integers
SumTo(f, n) == IF n = 0 THEN 0 ELSE SumTo(f, n - 1) + f[n - 1]

RECURSIVE CSumTo(_, _)
\* f[0] + ... + f[n-1] of complex numbers
CSumTo(f, n) == IF n = 0 THEN CZero ELSE CAdd(CSumTo(f, n - 1), f[n - 1])

\* 2x2 matrices are functions [Pol -> [Pol -> complex]]
Mat(a, b, c, d) == [i \in Pol |-> [k \in Pol |->
    IF i = 0 THEN (IF k = 0 THEN a ELSE b) ELSE (IF k = 0 THEN c ELSE d)]]
MatZero == Mat(CZero, CZero, CZero, CZero)
MatEye == Mat(COne, CZero, CZero, COne)
\* "...ij,...jk->...ik"
MatMul(x, y) == [i \in Pol |-> [k \in Pol |->
    CAdd(CMul(x[i][0], y[0][k]), CMul(x[i][1], y[1][k]))]]
\* "...ij,...kj->...ik" against a conjugated second operand: x . y^H
MatMulH(x, y) == [i \in Pol |-> [k \in Pol |->
    CAdd(CMul(x[i][0], CConj(y[k][0])), CMul(x[i][1], CConj(y[k][1])))]]
MatSub(x, y) == [i \in Pol |-> [k \in Pol |-> CSub(x[i][k], y[i][k])]]
MatTimes(n, x) == [i \in Pol |-> [k \in Pol |-> CTimes(n, x[i][k])]]
\* sum of |entries|^2 of a 2x2 matrix, units of 1/Scale^2
MatSq(x) == CSq(x[0][0]) + CSq(x[0][1]) + CSq(x[1][0]) + CSq(x[1][1])

\* ------------------------------------------------------------ exp(-1j*x)
RECURSIVE Series(_, _, _, _)
\* term + the following terms of the cos (n even) or sin (n odd) series,
\* term being the one in x^n; x2 = x*x
Series(x2, term, n, acc) ==
    IF term = 0 THEN acc
    ELSE Series(x2, 0 - RDiv(term * x2, Scale * (n + 1) * (n + 2)), n + 2, acc + term)

\* x reduced to [-pi, pi)
Reduce(x) == ((x + TwoPi \div 2) % TwoPi) - TwoPi \div 2
Cos(x) == LET r == Reduce(x) IN Series(Mul(r, r), Scale, 0, 0)
Sin(x) == LET r == Reduce(x) IN Series(Mul(r, r), r, 1, 0)
\* np.exp(-1j*x)
ExpNegI(x) == C(Cos(x), 0 - Sin(x))

\* ----------------------------------------------------------- compute_jhr
spec_eye == << <<1, 0, 0, 0>>, <<0, 0, 0, 1>> >>

\* rg = einsum("gh...ij,gh...jk->gh...ik", obser_arr, gains): the ellipsis of
\* gains (antenna) is aligned with the last antenna axis of obser_arr
jhr_rg(obs, gns) ==
    [p \in Ant |-> [q \in Ant |-> MatMul(obs[p][q], gns[q])]]

\* rgmh = einsum("...ij,...kj->...ik", rg, model_arr.conj()), summed over
\* the antenna axis -3
jhr_rgmh(obs, mdl, gns) ==
    LET rg == jhr_rg(obs, gns)
        rgmh == [p \in Ant |-> [q \in Ant |-> MatMulH(rg[p][q], mdl[p][q])]]
    IN  [p \in Ant |-> [i \in Pol |-> [k \in Pol |->
            CSumTo([q \in Ant |-> rgmh[p][q][i][k]], NAnt)]]]

\* ghi = einsum("...ij,...jk->...ik", gains.conj(), spec_eye): [antenna][2][4]
jhr_ghi(gns) ==
    [p \in Ant |-> [i \in Pol |-> [k \in 0 .. 3 |->
        CAdd(CTimes(spec_eye[1][k + 1], CConj(gns[p][i][0])),
             CTimes(spec_eye[2][k + 1], CConj(gns[p][i][1])))]]]

\* jhr taken from the real part
jhr_part_re(z) == z.re

\* the part of a complex number that jhr keeps
jhr_part(z) == z.im

compute_jhr(obs, mdl, gns) ==
    LET rgmh == jhr_rgmh(obs, mdl, gns)
        ghi == jhr_ghi(gns)
        \* rgmh.reshape([..., 4, 1])
        flat == [p \in Ant |-> [j \in 0 .. 3 |-> rgmh[p][j \div 2][j % 2]]]
        ghirgmh == [p \in Ant |-> [i \in Pol |->
            CSumTo([j \in 0 .. 3 |-> CMul(ghi[p][i][j], flat[p][j])], 4)]]
    IN  [p \in Ant |-> [i \in Pol |-> (0 - 2) * jhr_part(ghirgmh[p][i])]]

\* -------------------------------------------------------- compute_jhjinv
to_norm == << <<2, 0, 0, 0>>, <<1, 0, 0, 1>>, <<1, 0, 0, 1>>, <<0, 0, 0, 2>> >>

\* np.sum(abs(model_arr.reshape([..., 4]))**2, axis=-2).dot(to_norm)
jhj(mdl) ==
    LET sq == [p \in Ant |-> [j \in 0 .. 3 |->
                SumTo([q \in Ant |->
                    Mul(CAbs(mdl[p][q][j \div 2][j % 2]),
                        CAbs(mdl[p][q][j \div 2][j % 2]))], NAnt)]]
    IN  [p \in Ant |-> [k \in 0 .. 3 |->
            SumTo([j \in 0 .. 3 |-> sq[p][j] * to_norm[j + 1][k + 1]], 4)]]

\* inversion that guards the division by a small number instead
jhj_invert_eps(x) == RDiv(Scale * Scale, IF x = 0 THEN 1 ELSE x)

\* jhjinv[jhjinv != 0] = 1./jhjinv[jhjinv != 0], one entry
jhj_invert(x) == IF x # 0 THEN RDiv(Scale * Scale, x) ELSE 0

compute_jhjinv(mdl) ==
    LET n == jhj(mdl)
    IN  [p \in Ant |-> [i \in Pol |-> [k \in Pol |-> jhj_invert(n[p][2 * i + k])]]]

\* -------------------------------------------------------- compute_update
compute_update(mdl, obs, gns, jinv) ==
    LET jhr == compute_jhr(obs, mdl, gns)
    IN  [p \in Ant |-> [i \in Pol |->
            Mul(jinv[p][i][0], jhr[p][0]) + Mul(jinv[p][i][1], jhr[p][1])]]

\* ------------------------------------------------------ compute_residual
\* gmgh: G_l . M_lm . G_m^H
compute_gmgh(mdl, gns) ==
    [l \in Ant |-> [m \in Ant |->
        MatMulH(MatMul(gns[l], mdl[l][m]), gns[m])]]

compute_residual(obs, mdl, gns) ==
    LET gmgh == compute_gmgh(mdl, gns)
    IN  [l \in Ant |-> [m \in Ant |-> MatSub(obs[l][m], gmgh[l][m])]]

\* np.linalg.norm of an [antenna][antenna][2][2] array
norm4(a) ==
    ISqrt(SumTo([p \in Ant |-> SumTo([q \in Ant |-> MatSq(a[p][q])], NAnt)], NAnt))

\* np.linalg.norm of an [antenna][2][2] array
norm3(a) == ISqrt(SumTo([p \in Ant |-> MatSq(a[p])], NAnt))

\* ------------------------------------------------------------ apply_gains
\* the adjugate, not divided by the determinant
apply_inv_gains_nodet(gns) ==
    [l \in Ant |-> [i \in Pol |-> [k \in Pol |->
        IF i = k THEN gns[l][1 - k][1 - i] ELSE CNeg(gns[l][1 - k][1 - i])]]]

apply_inv_gains(gns) ==
    [l \in Ant |->
        LET g == gns[l]
            \* transpose of gains[..., ::-1, ::-1]
            t == [i \in Pol |-> [k \in Pol |-> g[1 - k][1 - i]]]
            \* np.array([[1, -1], [-1, 1]]) * inv_gains
            s == [i \in Pol |-> [k \in Pol |-> IF i = k THEN t[i][k] ELSE CNeg(t[i][k])]]
            det == CSub(CMul(g[0][0], g[1][1]), CMul(g[0][1], g[1][0]))
        IN  [i \in Pol |-> [k \in Pol |-> CMul(s[i][k], CRecip(det))]]]

apply_gains(obs, gns) ==
    LET inv_gains == apply_inv_gains(gns)
    IN  [l \in Ant |-> [m \in Ant |->
            MatMulH(MatMul(inv_gains[l], obs[l][m]), inv_gains[m])]]

\* -------------------------------------------- gains from phases (137-138)
\* einsum("...ij,...jk", np.exp(-1j*phases), np.ones([1, 2]))
gains_broadcast(phs) ==
    [p \in Ant |-> [i \in Pol |-> [k \in Pol |-> ExpNegI(phs[p][i])]]]

\* off-diagonal entries left as broadcast
gains_keep_offdiag(g) == g

\* gains[..., (0, 1), (1, 0)] = 0
gains_zero_offdiag(g) ==
    [p \in Ant |-> [i \in Pol |-> [k \in Pol |-> IF i = k THEN g[p][i][k] ELSE CZero]]]

make_gains(phs) == gains_zero_offdiag(gains_broadcast(phs))

\* ------------------------------------------------- solver configuration
\* defaults of full_pol_phase_only; min_delta_g is in units of 1/Scale
\* (1e-3 is one unit), chi_tol in units of 1/Scale^2 (1e-6 is one unit)
DefaultMinDeltaG == 1
DefaultMaxiter == 30
DefaultChiTol == 1
DefaultChiInterval == 5

\* a min_delta_g of 1.0; chi_tol of -2.0 and of 0.5
MinDeltaGs == {DefaultMinDeltaG, Scale}
Maxiters == (0 .. MaxMaxiter) \cup {DefaultMaxiter}
ChiTols == {DefaultChiTol, 0 - 2 * Scale * Scale, (Scale * Scale) \div 2}
ChiIntervals == (1 .. MaxChiInterval) \cup {DefaultChiInterval}

\* ----------------------------------------------------------------- inputs
CI == C(0, Scale)
\* visibility of one baseline: an unpolarised unit source, and a source
\* with circular polarisation
Brick(kind) == IF kind = "unit" THEN MatEye ELSE Mat(COne, CI, CNeg(CI), COne)
ModelKinds == {"unit", "full"}
\* sets of antennas without model flux: none, antenna 0, all
DeadSets == {{}, {0}, Ant}
model_of(kind, dead) ==
    [p \in Ant |-> [q \in Ant |->
        IF p \in dead \/ q \in dead THEN MatZero ELSE Brick(kind)]]

\* (-i)^k
QTurn(k) == IF k % 4 = 0 THEN COne ELSE IF k % 4 = 1 THEN CNeg(CI)
            ELSE IF k % 4 = 2 THEN CNeg(COne) ELSE CI
\* true gains: antenna p has its two phases at p*t[1] and p*t[2] quarter turns
Turns == {<<0, 0>>, <<1, 1>>, <<0, 1>>}
true_gains(t) ==
    [p \in Ant |-> Mat(QTurn(p * t[1]), CZero, CZero, QTurn(p * t[2]))]
\* amplitude error of the observed data
Amps == {1, 4}
obser_of(mdl, t, amp) ==
    LET v == compute_gmgh(mdl, true_gains(t))
    IN  [p \in Ant |-> [q \in Ant |-> MatTimes(amp, v[p][q])]]

ZeroPhases == [p \in Ant |-> [i \in Pol |-> 0]]
ZeroVis == [p \in Ant |-> [q \in Ant |-> MatZero]]
EyeGains == [p \in Ant |-> MatEye]

\* ------------------------------------------------------------------ state
VARIABLES
    model_arr, obser_arr,                        \* arguments
    min_delta_g, maxiter, chi_tol, chi_interval, \* configuration
    phases, gains, delta_g, iters, chi, old_chi, jhjinv, \* locals
    pc,          \* position in the program
    ret,         \* the value returned by full_pol_phase_only
    returned_at, \* which return statement returned
    stdout,      \* lines printed
    chi_log,     \* iteration counts at which chi was computed (history)
    corr_vis     \* result of apply_gains

vars == <<model_arr, obser_arr, min_delta_g, maxiter, chi_tol, chi_interval,
          phases, gains, delta_g, iters, chi, old_chi, jhjinv,
          pc, ret, returned_at, stdout, chi_log, corr_vis>>

args == <<model_arr, obser_arr, min_delta_g, maxiter, chi_tol, chi_interval>>

\* locals are unbound before line 132; they hold placeholders until Setup
Unbound ==
    /\ phases = ZeroPhases /\ gains = EyeGains /\ delta_g = 0 /\ iters = 0
    /\ chi = 0 /\ old_chi = 0 /\ jhjinv = EyeGains
    /\ ret = EyeGains /\ returned_at = "none" /\ stdout = <<>> /\ chi_log = <<>>
    /\ corr_vis = ZeroVis

\* a call full_pol_phase_only(model_arr, obser_arr, ...) is entered
Init ==
    /\ \E kind \in ModelKinds, dead \in DeadSets, t \in Turns, amp \in Amps :
          /\ model_arr = model_of(kind, dead)
          /\ obser_arr = obser_of(model_arr, t, amp)
    /\ min_delta_g \in MinDeltaGs
    /\ maxiter \in Maxiters
    /\ chi_tol \in ChiTols
    /\ chi_interval \in ChiIntervals
    /\ pc = "start"
    /\ Unbound

\* ---------------------------------------------------- full_pol_phase_only
\* chi started at zero
init_chi_zero == 0 * Scale

\* chi = np.inf
init_chi == Inf
\* delta_g = 1
init_delta_g == Scale

\* lines 132-144
Setup ==
    /\ pc = "start"
    /\ phases' = ZeroPhases
    /\ gains' = make_gains(ZeroPhases)
    /\ delta_g' = init_delta_g
    /\ iters' = 0
    /\ chi' = init_chi
    /\ jhjinv' = compute_jhjinv(model_arr)
    /\ pc' = "while"
    /\ UNCHANGED <<args, old_chi, ret, returned_at, stdout, chi_log, corr_vis>>

\* return of the initial gains
Return_initial(g, at) ==
    /\ ret' = EyeGains
    /\ returned_at' = at
    /\ pc' = "done"

\* return gains
Return(g, at) ==
    /\ ret' = g
    /\ returned_at' = at
    /\ pc' = "done"

\* while delta_g > min_delta_g
loop_continues(d, m) == d > m

\* line 146, and line 176 when the loop ends
WhileTest ==
    /\ pc = "while"
    /\ IF loop_continues(delta_g, min_delta_g)
       THEN pc' = "body" /\ UNCHANGED <<ret, returned_at>>
       ELSE Return(gains, "delta_g")
    /\ UNCHANGED <<args, phases, gains, delta_g, iters, chi, old_chi, jhjinv,
                   stdout, chi_log, corr_vis>>

\* lines 148-151: 0.5 on even iterations, 1 on odd ones
fact(n) == IF n % 2 = 0 THEN Scale \div 2 ELSE Scale

\* phases += fact*compute_update(...)
next_phases(phs, f, update) ==
    [p \in Ant |-> [i \in Pol |-> phs[p][i] + Mul(f, update[p][i])]]

\* lines 148-160
Update ==
    /\ pc = "body"
    /\ phases' = next_phases(phases, fact(iters),
                             compute_update(model_arr, obser_arr, gains, jhjinv))
    /\ delta_g' = gains
    /\ gains' = make_gains(phases')
    /\ iters' = iters + 1
    /\ pc' = "maxiter_test"
    /\ UNCHANGED <<args, chi, old_chi, jhjinv, ret, returned_at, stdout,
                   chi_log, corr_vis>>

\* cap tested one iteration late
exceeds_maxiter_late(n, m) == n > m + 1

\* if iters > maxiter
exceeds_maxiter(n, m) == n > m

\* lines 162-163
MaxiterTest ==
    /\ pc = "maxiter_test"
    /\ IF exceeds_maxiter(iters, maxiter)
       THEN Return(gains, "maxiter")
       ELSE pc' = "chi_test" /\ UNCHANGED <<ret, returned_at>>
    /\ UNCHANGED <<args, phases, gains, delta_g, iters, chi, old_chi, jhjinv,
                   stdout, chi_log, corr_vis>>

\* if (iters % chi_interval) == 0
chi_due(n, interval) == n % interval = 0
\* (old_chi - chi) < chi_tol, new finite; inf - new is inf
chi_converged(old, new, tol) == old # Inf /\ (old - new) * Scale < tol
\* old_chi < chi, new finite
chi_increased(old, new) == old # Inf /\ old < new

\* lines 165-172
ChiTest ==
    /\ pc = "chi_test"
    /\ IF chi_due(iters, chi_interval)
       THEN /\ old_chi' = chi
            /\ chi' = norm4(compute_residual(obser_arr, model_arr, gains))
            /\ chi_log' = Append(chi_log, iters)
            /\ IF chi_converged(old_chi', chi', chi_tol)
               THEN Return(gains, "chi_tol") /\ UNCHANGED stdout
               ELSE IF chi_increased(old_chi', chi')
                    THEN stdout' = Append(stdout, "Bad solutions.")
                         /\ Return(gains, "bad_solutions")
                    ELSE pc' = "delta_g" /\ UNCHANGED <<ret, returned_at, stdout>>
       ELSE /\ pc' = "delta_g"
            /\ UNCHANGED <<old_chi, chi, chi_log, ret, returned_at, stdout>>
    /\ UNCHANGED <<args, phases, gains, delta_g, iters, jhjinv, corr_vis>>

\* line 174: delta_g holds the copy of the previous gains
DeltaG ==
    /\ pc = "delta_g"
    /\ delta_g' = norm3([p \in Ant |-> MatSub(delta_g[p], gains[p])])
    /\ pc' = "while"
    /\ UNCHANGED <<args, phases, gains, iters, chi, old_chi, jhjinv,
                   ret, returned_at, stdout, chi_log, corr_vis>>

\* line 212: corr_vis = apply_gains(b, gains) with the returned gains
ApplyGains ==
    /\ pc = "done"
    /\ corr_vis' = apply_gains(obser_arr, ret)
    /\ pc' = "applied"
    /\ UNCHANGED <<args, phases, gains, delta_g, iters, chi, old_chi, jhjinv,
                   ret, returned_at, stdout, chi_log>>

Next ==
    \/ Setup
    \/ WhileTest
    \/ Update
    \/ MaxiterTest
    \/ ChiTest
    \/ DeltaG
    \/ ApplyGains

Spec == Init /\ [][Next]_vars


\* ------------------------------------------------ round trip of apply_gains
\* diagonal entries of the gains of the round trip: none is zero
GainVals == {COne, CI, C(2 * Scale, 0), C(Scale, Scale), C(3 * Scale, 0),
             C(0, 0 - 2 * Scale)}
diag_gains(g0, g1) ==
    [p \in Ant |-> IF p % 2 = 0 THEN Mat(g0, CZero, CZero, g1)
                                ELSE Mat(g1, CZero, CZero, g0)]
VisKinds == {"unit", "full", "mixed"}
vis_of(kind) ==
    [p \in Ant |-> [q \in Ant |->
        MatTimes(1 + ((p + q) % 2),
                 IF kind = "mixed" THEN Mat(COne, C(2 * Scale, 0), CI, CNeg(COne))
                                   ELSE Brick(kind))]]

\* visibilities V (held in model_arr) and gains G are given
InitApply ==
    /\ \E kind \in VisKinds : model_arr = vis_of(kind)
    /\ \E g0 \in GainVals, g1 \in GainVals : gains = diag_gains(g0, g1)
    /\ obser_arr = ZeroVis
    /\ min_delta_g = DefaultMinDeltaG /\ maxiter = DefaultMaxiter
    /\ chi_tol = DefaultChiTol /\ chi_interval = DefaultChiInterval
    /\ phases = ZeroPhases /\ delta_g = 0 /\ iters = 0
    /\ chi = 0 /\ old_chi = 0 /\ jhjinv = EyeGains
    /\ ret = EyeGains /\ returned_at = "none" /\ stdout = <<>> /\ chi_log = <<>>
    /\ corr_vis = ZeroVis
    /\ pc = "rt_start"

\* the corrupted visibilities G_p V_pq G_q^H of compute_residual, 105-107
Corrupt ==
    /\ pc = "rt_start"
    /\ obser_arr' = compute_gmgh(model_arr, gains)
    /\ pc' = "rt_corrupted"
    /\ UNCHANGED <<model_arr, min_delta_g, maxiter, chi_tol, chi_interval,
                   phases, gains, delta_g, iters, chi, old_chi, jhjinv,
                   ret, returned_at, stdout, chi_log, corr_vis>>

\* apply_gains(obser_arr, gains), 191-202
Correct ==
    /\ pc = "rt_corrupted"
    /\ corr_vis' = apply_gains(obser_arr, gains)
    /\ pc' = "rt_applied"
    /\ UNCHANGED <<args, phases, gains, delta_g, iters, chi, old_chi, jhjinv,
                   ret, returned_at, stdout, chi_log>>

NextApply == Corrupt \/ Correct

SpecApply == InitApply /\ [][NextApply]_vars

\* ================================================================= claims
Returned == pc \in {"done", "applied"}
DefaultConfig ==
    /\ min_delta_g = DefaultMinDeltaG /\ maxiter = DefaultMaxiter
    /\ chi_tol = DefaultChiTol /\ chi_interval = DefaultChiInterval
\* a chi-squared check has just been made in the current iteration
JustChecked == chi_log # <<>> /\ chi_log[Len(chi_log)] = iters /\ iters > 0
\* antenna p has no model flux
NoFlux(p) == \A q \in Ant : model_arr[p][q] = MatZero

\* C1: every call ends after at most maxiter+1 phase updates, and with
\* maxiter = 0, or when neither the delta_g test nor a chi-squared check ends
\* the solve, it ends in the max-iterations state (the return of line 163).
C1_EndsAtCap ==
    Returned =>
        /\ iters <= maxiter + 1
        /\ maxiter = 0 => returned_at = "maxiter"
        /\ returned_at \notin {"delta_g", "chi_tol", "bad_solutions"}
              => returned_at = "maxiter"

\* C2: a chi-squared check that finds chi greater than at the previous check
\* (old_chi < chi) ends the solve as diverged: "Bad solutions." is printed
\* and the gains of that checkpoint are returned, for every chi_tol.
C2_IncreaseDiverges ==
    (JustChecked /\ chi_increased(old_chi, chi)) =>
        /\ Returned
        /\ returned_at = "bad_solutions"
        /\ stdout = <<"Bad solutions.">>
        /\ ret = gains

\* C3: the returned result tells the outcomes apart.  The result is the
\* value ret; a solve of obser_arr = model_arr that ends by convergence
\* returns the identity gains, so no solve that ends at the iteration cap
\* or as diverged may return the identity gains as well.
C3_Distinguishable ==
    (Returned /\ returned_at \in {"maxiter", "bad_solutions"}) => ret # EyeGains

\* C3 as amended: every return statement returns the gains array and
\* nothing else; the only other trace of the outcome is the line
\* "Bad solutions.", printed exactly when the solve ends at line 172.
C3_ReturnsGainsOnly ==
    Returned =>
        /\ ret = gains
        /\ stdout = IF returned_at = "bad_solutions" THEN <<"Bad solutions.">> ELSE <<>>

\* a solve of a non-zero model that ended at the iteration cap and returned
\* the identity gains, the result of the converged solve of C4
C3_Witness ==
    /\ Returned /\ returned_at = "maxiter" /\ ret = EyeGains
    /\ model_arr # ZeroVis

\* C4: with obser_arr = model_arr the selected diagonal entries of the
\* summed D.G.M^H are real, every update is zero, the phases stay zero, the
\* gains are the identity, the residual norm is zero, and with the default
\* configuration the solve ends by the delta_g test after one iteration.
C4_PerfectData ==
    (obser_arr = model_arr /\ pc # "start") =>
        /\ \A p \in Ant, i \in Pol :
              jhr_rgmh(obser_arr, model_arr, gains)[p][i][i].im = 0
        /\ compute_update(model_arr, obser_arr, gains, jhjinv) = ZeroPhases
        /\ phases = ZeroPhases
        /\ gains = EyeGains
        /\ norm4(compute_residual(obser_arr, model_arr, gains)) = 0
        /\ (Returned /\ DefaultConfig) =>
              /\ returned_at = "delta_g" /\ iters = 1 /\ ret = EyeGains

C4_Witness ==
    /\ Returned /\ DefaultConfig /\ obser_arr = model_arr
    /\ model_arr = model_of("full", {}) /\ iters = 1

\* C5: compute_jhjinv turns every non-zero normal-equation entry into its
\* reciprocal (the nearest representable number) and leaves every zero entry
\* zero; an all-zero model gives an all-zero block, and an antenna without
\* model flux gets a zero update, so its phases stay zero.
C5_ZeroStaysZero ==
    pc # "start" =>
        /\ \A p \in Ant, i \in Pol, k \in Pol :
              LET n == jhj(model_arr)[p][2 * i + k]
              IN  IF n = 0 THEN jhjinv[p][i][k] = 0
                  ELSE 2 * Abs(jhjinv[p][i][k] * n - Scale * Scale) <= n
        /\ model_arr = ZeroVis => jhjinv = [p \in Ant |-> [i \in Pol |-> [k \in Pol |-> 0]]]
        /\ \A p \in Ant : NoFlux(p) =>
              /\ jhjinv[p] = [i \in Pol |-> [k \in Pol |-> 0]]
              /\ compute_update(model_arr, obser_arr, gains, jhjinv)[p] = [i \in Pol |-> 0]
              /\ phases[p] = [i \in Pol |-> 0]

\* antenna 0 has no flux, another antenna has, and iterations have run
C5_Witness ==
    /\ Returned /\ iters >= 2 /\ NoFlux(0)
    /\ \E p \in Ant : ~NoFlux(p) /\ jhjinv[p][0][0] # 0 /\ phases[p] # [i \in Pol |-> 0]

\* C6: apply_gains applied with G to the corrupted visibilities
\* G_p.V_pq.G_q^H returns V for every antenna pair: to within RtTol for all
\* diagonal gains without zero entry, and exactly when the reciprocal of
\* every determinant is representable.
RtTol == Scale \div 64
det_of(g) == CSub(CMul(g[0][0], g[1][1]), CMul(g[0][1], g[1][0]))
ExactRecip(g) == CMul(det_of(g), CRecip(det_of(g))) = COne
C6_RoundTrip ==
    pc = "rt_applied" =>
        /\ \A p \in Ant, q \in Ant, i \in Pol, k \in Pol :
              /\ Abs(corr_vis[p][q][i][k].re - model_arr[p][q][i][k].re) <= RtTol
              /\ Abs(corr_vis[p][q][i][k].im - model_arr[p][q][i][k].im) <= RtTol
        /\ (\A p \in Ant : ExactRecip(gains[p])) => corr_vis = model_arr

C6_Witness ==
    /\ pc = "rt_applied"
    /\ gains[0] = Mat(C(Scale, Scale), CZero, CZero, C(0, 0 - 2 * Scale))
    /\ model_arr = vis_of("mixed")
    /\ corr_vis = model_arr /\ obser_arr # model_arr

\* C7: every gain matrix has zero off-diagonal entries and two equal
\* diagonal entries, the two phase slots of an antenna holding one value.
C7_EqualDiagonal ==
    pc \notin {"start", "rt_start", "rt_corrupted", "rt_applied"} =>
        \A p \in Ant :
            /\ gains[p][0][1] = CZero /\ gains[p][1][0] = CZero
            /\ gains[p][0][0] = gains[p][1][1]
            /\ phases[p][0] = phases[p][1]

\* C7 as amended: every gain matrix, during the solve and as returned, has
\* zero off-diagonal entries, and its diagonal entry i is exp(-1j*phase) of
\* the antenna's phase slot i; the two slots are updated separately and
\* need not be equal.
C7_DiagonalPerSlot ==
    pc # "start" =>
        /\ \A p \in Ant :
              /\ gains[p][0][1] = CZero /\ gains[p][1][0] = CZero
              /\ \A i \in Pol : gains[p][i][i] = ExpNegI(phases[p][i])
        /\ Returned => ret = gains

C7_Witness ==
    /\ Returned /\ iters >= 2
    /\ \E p \in Ant : phases[p][0] # phases[p][1] /\ gains[p][0][0] # gains[p][1][1]

\* C8: for every configuration at least one iteration runs before the solve
\* can end: no solve returns without a phase update.
C8_OneIteration == Returned => iters >= 1

\* C9: chi-squared is computed only at iteration counts that are multiples
\* of chi_interval; at the first check old_chi is +infinity and the solve
\* goes on; a solve ended by a chi-squared check has made two checks at
\* least.
C9_FirstCheckNeverExits ==
    /\ \A n \in 1 .. Len(chi_log) : chi_log[n] > 0 /\ chi_log[n] % chi_interval = 0
    /\ Len(chi_log) = 1 =>
          /\ old_chi = Inf /\ chi # Inf
          /\ returned_at \notin {"chi_tol", "bad_solutions"}
    /\ returned_at \in {"chi_tol", "bad_solutions"} => Len(chi_log) >= 2

C9_Witness ==
    /\ Returned /\ returned_at = "chi_tol" /\ Len(chi_log) = 2
    /\ chi < old_chi

\* C10: once the incremented counter exceeds maxiter the solve returns the
\* current gains at once, without a chi-squared check in that iteration:
\* chi-squared is never computed at an iteration count above maxiter.
C10_CapFirst ==
    /\ \A n \in 1 .. Len(chi_log) : chi_log[n] <= maxiter
    /\ iters > maxiter =>
          /\ pc \in {"maxiter_test", "done", "applied"}
          /\ Returned => (returned_at = "maxiter" /\ ret = gains /\ ~JustChecked)

\* the cap is hit at an iteration count at which a check was due
C10_Witness ==
    /\ Returned /\ returned_at = "maxiter" /\ iters = maxiter + 1
    /\ chi_due(iters, chi_interval) /\ chi_log # <<>>

====
